---- MODULE Spec2Model ----
(***************************************************************************)
(* Model of the viewport core of FractalGLWidget: the current state        *)
(* (m_state), the target state (m_targetState), the drag flag, the last    *)
(* pointer position and the pan velocity, driven by the Qt event handlers  *)
(* (mousePressEvent, mouseMoveEvent, mouseReleaseEvent, wheelEvent) and by *)
(* the 16 ms animation timer (animate -> updatePhysics).                   *)
(*                                                                         *)
(* Numbers.  The C++ code computes in double.  The model computes in       *)
(* fixed point: a fractal-space double is an integer count of 1/Unit, a    *)
(* pixel-space qreal an integer count of 1/PxUnit of a pixel.  Every       *)
(* product or quotient is rounded to the nearest representable value, as   *)
(* IEEE arithmetic rounds, so a step smaller than half a unit is lost, as  *)
(* a step smaller than half an ulp is lost in double.  A fractal-space     *)
(* double has a largest finite value MaxFinite; a result beyond it is an   *)
(* infinity, and inf - inf, 0 * inf and 0 / 0 are NaN, as in IEEE          *)
(* arithmetic.  Pixel-space values stay finite: they are differences of    *)
(* pointer positions, and the velocity only shrinks.                       *)
(***************************************************************************)
EXTENDS Integers, Sequences, FiniteSets, TLC

\* Resolution of a fractal-space double: values are counts of 1/Unit.
Unit == 10000

\* Resolution of a pixel-space qreal (QPointF): values are counts of 1/PxUnit px.
PxUnit == 100

\* The largest finite fractal-space double, in counts of 1/Unit.
MaxFinite == 1000000

\* Input events a behaviour may deliver, and timer ticks it may run.
MaxInputs == 3
MaxTicks == 2

\* A burst of scroll events at the viewport centre: its length, and the
\* timer ticks that may run during and after it.
MaxBurst == 50
BurstTicks == 2

Abs(x) == IF x < 0 THEN -x ELSE x

\* n / d rounded to the nearest integer (d > 0), the rounding of one
\* floating-point operation.
Round(n, d) ==
  IF n >= 0 THEN (n + (d \div 2)) \div d
            ELSE -((-n + (d \div 2)) \div d)

\* The non-finite doubles.
PosInf == MaxFinite + 1
NegInf == -(MaxFinite + 1)
NaN == MaxFinite + 2

IsFinite(x) == -MaxFinite <= x /\ x <= MaxFinite

\* x > 0 as the double comparison evaluates it (false for NaN).
IsPositive(x) == x # NaN /\ x > 0

\* An exact result brought into double's range: beyond MaxFinite it is an
\* infinity.
Overflow(x) ==
  IF x > MaxFinite THEN PosInf ELSE IF x < -MaxFinite THEN NegInf ELSE x

\* a * n / d for finite a, rounded to the nearest integer (d > 0).
MulRound(a, n, d) ==
  LET sign == IF (a < 0) = (n < 0) THEN 1 ELSE -1
      q == Abs(a) \div d
      r == Abs(a) % d
  IN  sign * (q * Abs(n) + Round(r * Abs(n), d))

\* -a
FNeg(a) == IF a = NaN THEN NaN ELSE -a

\* a + b
FAdd(a, b) ==
  IF a = NaN \/ b = NaN THEN NaN
  ELSE IF IsFinite(a) /\ IsFinite(b) THEN Overflow(a + b)
  ELSE IF IsFinite(a) THEN b
  ELSE IF IsFinite(b) THEN a
  ELSE IF a = b THEN a
  ELSE NaN

\* a - b
FSub(a, b) == FAdd(a, FNeg(b))

\* a * (n / d) for a positive constant n / d (0.92, 1.08, 0.08).
FScale(a, n, d) ==
  IF a = NaN THEN NaN
  ELSE IF ~IsFinite(a) THEN a
  ELSE Overflow(MulRound(a, n, d))

\* pixels * s for an infinite scale s and a finite pixel distance.
InfTimes(pixels, s) ==
  IF pixels = 0 THEN NaN
  ELSE IF (pixels > 0) = (s > 0) THEN PosInf
  ELSE NegInf

\* QPointF::manhattanLength
manhattanLength(p) == Abs(p[1]) + Abs(p[2])

\* 0.1 pixel, the velocity threshold of updatePhysics.
StopThreshold == PxUnit \div 10

\* Resolution of juliaCx / juliaCy: counts of 1/JuliaUnit, a power of two.
\* The widget never computes with them; it stores them as doubles and narrows
\* them to float for the renderer, so they are kept as binary significands.
JuliaUnit == 1024

\* The struct State with its default member initialisers.
State ==
  [ zoomCenterX   |-> -(Unit \div 2),
    zoomCenterY   |-> 0,
    zoomSize      |-> 3 * Unit,
    maxIterations |-> 500,
    paletteId     |-> 0,
    fractalType   |-> 0,
    juliaCx       |-> -((7269 * JuliaUnit) \div 10000),
    juliaCy       |-> (1889 * JuliaUnit) \div 10000 ]

\* Viewport sizes (width, height) in whole pixels: the window size main()
\* requests and an 800x600 viewport.
ViewportSizes == { <<800, 600>>, <<1024, 768>> }

\* Pointer positions (QPointF, in 1/PxUnit px): the centre of the 800x600
\* viewport (an off-centre point of the larger one), a point 30 px right and
\* 10 px up of it, and a point a twentieth of a pixel right of it (a high-DPI
\* sub-pixel position).
PointerPositions ==
  { <<400 * PxUnit, 300 * PxUnit>>,
    <<430 * PxUnit, 290 * PxUnit>>,
    <<400 * PxUnit + 5, 300 * PxUnit>> }

Buttons == { "LeftButton", "RightButton" }

VARIABLES
  m_state,        \* current (rendered) state
  m_targetState,  \* target state, set by the user's interactions
  m_isDragging,
  m_lastMousePos,
  m_velocity,
  viewport,       \* <<width(), height()>> of the widget
  lastOp,         \* the handler that ran last
  inputsLeft,     \* input events the behaviour may still deliver
  ticksLeft,      \* timer ticks the behaviour may still run
  m_program,            \* ShaderManager::m_program
  m_usingNativeDoubles, \* ShaderManager::m_usingNativeDoubles
  loadResult,           \* what the last loadFractalShader call returned
  u_maxIterations,      \* the uniform updateUniforms last set on the program
  value,                \* the double last handed to splitDouble
  split                 \* the DoubleSplit it returned

\* The widget's rendering side: the shader manager, the uniforms and the
\* precision split.  The input handlers and the animation slot never touch it.
renderVars ==
  << m_program, m_usingNativeDoubles, loadResult, u_maxIterations, value, split >>

vars ==
  << m_state, m_targetState, m_isDragging, m_lastMousePos, m_velocity,
     viewport, lastOp, inputsLeft, ticksLeft, renderVars >>

\* Input events delivered and timer ticks run so far.
nInputs == MaxInputs - inputsLeft
nTicks == MaxTicks - ticksLeft

width  == viewport[1]
height == viewport[2]

\* pixels * (size / h): a pixel distance (1/PxUnit px) times the
\* fractal-units-per-pixel scale of a view of the given size and height.
\* size / h is infinite when the size is, or when h is 0.
PixelToFractal(pixels, size, h) ==
  IF size = NaN THEN NaN
  ELSE IF h = 0 THEN (IF size = 0 THEN NaN ELSE InfTimes(pixels, size))
  ELSE IF ~IsFinite(size) THEN InfTimes(pixels, size)
  ELSE Overflow(MulRound(size, pixels, h * PxUnit))

\* The fractal point a cursor pixel maps to in a view t on a viewport vp:
\* center + offset-from-centre * size / height, vertical axis inverted.
CursorToFractal(pos, t, vp) ==
  LET relX == pos[1] - ((vp[1] * PxUnit) \div 2)
      relY == pos[2] - ((vp[2] * PxUnit) \div 2)
  IN  << FAdd(t.zoomCenterX, PixelToFractal(relX, t.zoomSize, vp[2])),
         FSub(t.zoomCenterY, PixelToFractal(relY, t.zoomSize, vp[2])) >>

\* wheelEvent's zoom factor in hundredths: 0.92 when angleDelta().y() > 0
\* (zoom in), 1.08 otherwise (zoom out).
zoomFactor(angleUp) == IF angleUp THEN 92 ELSE 108

\* wheelEvent with the new centre computed from the pre-zoom scale (the
\* recomputation of pixelToFractal after the size update forgotten).
WheelTarget_StaleScale(t, pos, angleUp, vp) ==
  LET relX == pos[1] - ((vp[1] * PxUnit) \div 2)
      relY == pos[2] - ((vp[2] * PxUnit) \div 2)
      mouseFractalX == FAdd(t.zoomCenterX, PixelToFractal(relX, t.zoomSize, vp[2]))
      mouseFractalY == FSub(t.zoomCenterY, PixelToFractal(relY, t.zoomSize, vp[2]))
      newSize == FScale(t.zoomSize, zoomFactor(angleUp), 100)
  IN  [ t EXCEPT
          !.zoomSize    = newSize,
          !.zoomCenterX = FSub(mouseFractalX, PixelToFractal(relX, t.zoomSize, vp[2])),
          !.zoomCenterY = FAdd(mouseFractalY, PixelToFractal(relY, t.zoomSize, vp[2])) ]

\* wheelEvent with the cursor offset taken from the widget's corner instead
\* of its centre (the "- width() / 2.0" and "- height() / 2.0" dropped) when
\* the new centre is computed.
WheelTarget_CornerOffset(t, pos, angleUp, vp) ==
  LET relX == pos[1] - ((vp[1] * PxUnit) \div 2)
      relY == pos[2] - ((vp[2] * PxUnit) \div 2)
      mouseFractalX == FAdd(t.zoomCenterX, PixelToFractal(relX, t.zoomSize, vp[2]))
      mouseFractalY == FSub(t.zoomCenterY, PixelToFractal(relY, t.zoomSize, vp[2]))
      newSize == FScale(t.zoomSize, zoomFactor(angleUp), 100)
  IN  [ t EXCEPT
          !.zoomSize    = newSize,
          !.zoomCenterX = FSub(mouseFractalX, PixelToFractal(pos[1], newSize, vp[2])),
          !.zoomCenterY = FAdd(mouseFractalY, PixelToFractal(pos[2], newSize, vp[2])) ]

\* The target state wheelEvent leaves, for a wheel event at pos on viewport vp.
WheelTarget(t, pos, angleUp, vp) ==
  LET relX == pos[1] - ((vp[1] * PxUnit) \div 2)
      relY == pos[2] - ((vp[2] * PxUnit) \div 2)
      mouseFractalX == FAdd(t.zoomCenterX, PixelToFractal(relX, t.zoomSize, vp[2]))
      mouseFractalY == FSub(t.zoomCenterY, PixelToFractal(relY, t.zoomSize, vp[2]))
      newSize == FScale(t.zoomSize, zoomFactor(angleUp), 100)
  IN  [ t EXCEPT
          !.zoomSize    = newSize,
          !.zoomCenterX = FSub(mouseFractalX, PixelToFractal(relX, newSize, vp[2])),
          !.zoomCenterY = FAdd(mouseFractalY, PixelToFractal(relY, newSize, vp[2])) ]

\* mouseMoveEvent with the vertical axis not inverted ("-=" for both axes).
DragState_YNotInverted(s, delta, size, h) ==
  [ s EXCEPT
      !.zoomCenterX = FSub(s.zoomCenterX, PixelToFractal(delta[1], size, h)),
      !.zoomCenterY = FSub(s.zoomCenterY, PixelToFractal(delta[2], size, h)) ]

\* The current state mouseMoveEvent leaves while dragging: the pixel delta,
\* scaled by size / h, moves the current centre directly.
DragState(s, delta, size, h) ==
  [ s EXCEPT
      !.zoomCenterX = FSub(s.zoomCenterX, PixelToFractal(delta[1], size, h)),
      !.zoomCenterY = FAdd(s.zoomCenterY, PixelToFractal(delta[2], size, h)) ]

\* A smoothing step with the factor 1.08 in place of 0.08.
Lerp_Overshoot(c, t) == FAdd(c, FScale(FSub(t, c), 108, 100))

\* One exponential-smoothing step of a component: c += (t - c) * 0.08.
Lerp(c, t) == FAdd(c, FScale(FSub(t, c), 8, 100))

\* A smoothing step that also writes a zoom-scaled iteration budget back
\* into the stored state.
SmoothState_StoresIterations(s, t) ==
  [ s EXCEPT
      !.zoomSize      = FAdd(s.zoomSize, FScale(FSub(t.zoomSize, s.zoomSize), 8, 100)),
      !.zoomCenterX   = FAdd(s.zoomCenterX, FScale(FSub(t.zoomCenterX, s.zoomCenterX), 8, 100)),
      !.zoomCenterY   = FAdd(s.zoomCenterY, FScale(FSub(t.zoomCenterY, s.zoomCenterY), 8, 100)),
      !.maxIterations = (s.maxIterations * 12) \div 10 ]

\* Part 1 of updatePhysics: the current state after the smoothing step.
SmoothState(s, t) ==
  [ s EXCEPT
      !.zoomSize    = Lerp(s.zoomSize, t.zoomSize),
      !.zoomCenterX = Lerp(s.zoomCenterX, t.zoomCenterX),
      !.zoomCenterY = Lerp(s.zoomCenterY, t.zoomCenterY) ]

\* m_velocity *= 0.92
Friction(v) == << Round(v[1] * 92, 100), Round(v[2] * 92, 100) >>

\* The displacement (dx, dy) of the momentum step, from the smoothed current
\* size.
MomentumDelta(s, v, h) ==
  << PixelToFractal(v[1], s.zoomSize, h), PixelToFractal(v[2], s.zoomSize, h) >>

\* The velocity the momentum step leaves: friction, then zero when small.
MomentumVelocity(v) ==
  IF manhattanLength(Friction(v)) < StopThreshold THEN <<0, 0>> ELSE Friction(v)

\* A momentum guard that does not look at the drag flag.
MomentumActive_IgnoresDragging(dragging, v) ==
  manhattanLength(v) > StopThreshold

\* The guard of the momentum step.
MomentumActive(dragging, v) ==
  ~dragging /\ manhattanLength(v) > StopThreshold

\* A momentum step that moves the target only and leaves the current state
\* to the smoothing.
MomentumState_TargetOnly(s, v, h) == s

\* Part 2 of updatePhysics applied to the current state s (already smoothed).
MomentumState(s, v, h) ==
  [ s EXCEPT
      !.zoomCenterX = FSub(s.zoomCenterX, MomentumDelta(s, v, h)[1]),
      !.zoomCenterY = FAdd(s.zoomCenterY, MomentumDelta(s, v, h)[2]) ]

\* Part 2 of updatePhysics applied to the target state t; s is the smoothed
\* current state, whose size scales the displacement.
MomentumTarget(t, s, v, h) ==
  [ t EXCEPT
      !.zoomCenterX = FSub(t.zoomCenterX, MomentumDelta(s, v, h)[1]),
      !.zoomCenterY = FAdd(t.zoomCenterY, MomentumDelta(s, v, h)[2]) ]

\* The rendering side after construction: ShaderManager() sets m_program to
\* nullptr, no uniform has been set and nothing has been split.
InitRendering ==
  /\ m_program = "nullptr"
  /\ m_usingNativeDoubles = FALSE
  /\ loadResult = "none"
  /\ u_maxIterations = 0
  /\ value = 0
  /\ split = [ hi |-> 0, lo |-> 0 ]

Init ==
  /\ InitRendering
  /\ m_state = State
  /\ m_targetState = State
  /\ m_isDragging = FALSE
  /\ m_lastMousePos = <<0, 0>>
  /\ m_velocity = <<0, 0>>
  /\ viewport \in ViewportSizes
  /\ lastOp = "init"
  /\ inputsLeft = MaxInputs
  /\ ticksLeft = MaxTicks

Input(op) ==
  /\ inputsLeft > 0
  /\ inputsLeft' = inputsLeft - 1
  /\ lastOp' = op
  /\ UNCHANGED << ticksLeft, renderVars >>

\* A press that syncs the whole target state (m_targetState = m_state), the
\* size included.
PressTarget_SyncAll(t, s) == s

\* The target state a left-button press leaves: the centre synced to the
\* current centre, the size untouched.
PressTarget(t, s) ==
  [ t EXCEPT !.zoomCenterX = s.zoomCenterX, !.zoomCenterY = s.zoomCenterY ]

mousePressEvent(button, pos) ==
  /\ Input("press")
  /\ IF button = "LeftButton"
       THEN /\ m_isDragging' = TRUE
            /\ m_lastMousePos' = pos
            /\ m_velocity' = <<0, 0>>
            /\ m_targetState' = PressTarget(m_targetState, m_state)
       ELSE UNCHANGED << m_isDragging, m_lastMousePos, m_velocity, m_targetState >>
  /\ UNCHANGED << m_state, viewport >>

\* currentPos - m_lastMousePos
PointerDelta(pos) ==
  << pos[1] - m_lastMousePos[1], pos[2] - m_lastMousePos[2] >>

\* mouseMoveEvent taking its scale from the target size.
DragScaleSize_Target == m_targetState.zoomSize

\* The size mouseMoveEvent divides by height() for its pixelToFractal scale.
DragScaleSize == m_state.zoomSize

\* A drag move that shifts the target centre by the same displacement
\* instead of copying the current centre into it
\* (m_targetState.zoomCenterX -= delta.x() * pixelToFractal).
mouseMoveEvent_TargetByDelta(pos) ==
  /\ Input("move")
  /\ IF m_isDragging
       THEN LET delta == PointerDelta(pos)
            IN  /\ m_state' = DragState(m_state, delta, DragScaleSize, height)
                /\ m_targetState' =
                     DragState(m_targetState, delta, DragScaleSize, height)
                /\ m_velocity' = delta
                /\ m_lastMousePos' = pos
       ELSE UNCHANGED << m_state, m_targetState, m_velocity, m_lastMousePos >>
  /\ UNCHANGED << m_isDragging, viewport >>

mouseMoveEvent(pos) ==
  /\ Input("move")
  /\ IF m_isDragging
       THEN LET delta == PointerDelta(pos)
                moved == DragState(m_state, delta, DragScaleSize, height)
            IN  /\ m_state' = moved
                /\ m_targetState' =
                     [ m_targetState EXCEPT !.zoomCenterX = moved.zoomCenterX,
                                            !.zoomCenterY = moved.zoomCenterY ]
                /\ m_velocity' = delta
                /\ m_lastMousePos' = pos
       ELSE UNCHANGED << m_state, m_targetState, m_velocity, m_lastMousePos >>
  /\ UNCHANGED << m_isDragging, viewport >>

\* A release that also stops the motion (m_velocity = QPointF(0, 0)).
mouseReleaseEvent_ResetVelocity(button) ==
  /\ Input("release")
  /\ m_isDragging' = IF button = "LeftButton" THEN FALSE ELSE m_isDragging
  /\ m_velocity' = IF button = "LeftButton" THEN <<0, 0>> ELSE m_velocity
  /\ UNCHANGED << m_state, m_targetState, m_lastMousePos, viewport >>

mouseReleaseEvent(button) ==
  /\ Input("release")
  /\ m_isDragging' = IF button = "LeftButton" THEN FALSE ELSE m_isDragging
  /\ UNCHANGED << m_state, m_targetState, m_lastMousePos, m_velocity, viewport >>

\* A loss of input focus.  The widget overrides no focusOutEvent, so the
\* inherited QWidget handler runs: it touches none of the widget's members.
focusOutEvent ==
  /\ Input("focusOut")
  /\ UNCHANGED << m_state, m_targetState, m_isDragging, m_lastMousePos,
                  m_velocity, viewport >>

\* A wheel event that also snaps the rendered view to the new target
\* (m_state = m_targetState after the target update).
wheelEvent_SnapsCurrent(angleUp, pos) ==
  /\ Input("wheel")
  /\ m_targetState' = WheelTarget(m_targetState, pos, angleUp, viewport)
  /\ m_state' = m_targetState'
  /\ UNCHANGED << m_isDragging, m_lastMousePos, m_velocity, viewport >>

wheelEvent(angleUp, pos) ==
  /\ Input("wheel")
  /\ m_targetState' = WheelTarget(m_targetState, pos, angleUp, viewport)
  /\ UNCHANGED << m_state, m_isDragging, m_lastMousePos, m_velocity, viewport >>

resizeGL(size) ==
  /\ Input("resize")
  /\ size # viewport
  /\ viewport' = size
  /\ UNCHANGED << m_state, m_targetState, m_isDragging, m_lastMousePos, m_velocity >>

\* The time step animate hands to updatePhysics, in milliseconds (0.016 s).
FixedTimeStep == 16

\* Times that can really elapse between two timeouts of the 16 ms animation
\* timer, in milliseconds: an early, a nominal and a late tick.
ElapsedTimes == { 8, 16, 32 }

\* The current state updatePhysics(deltaTime) leaves when no momentum step
\* runs: smoothFactor is the constant 0.08, deltaTime is not read.
PhysicsCurrent(s, t, deltaTime) == SmoothState(s, t)

\* The current state a tick leaves, with no momentum, when `elapsed` ms have
\* passed since the previous tick: animate measures nothing and passes the
\* fixed step.
TickCurrent(s, t, elapsed) == PhysicsCurrent(s, t, FixedTimeStep)

\* updatePhysics: smoothing, then momentum panning.
updatePhysics(deltaTime) ==
  LET smoothed == PhysicsCurrent(m_state, m_targetState, deltaTime)
  IN  IF MomentumActive(m_isDragging, m_velocity)
        THEN /\ m_state' = MomentumState(smoothed, m_velocity, height)
             /\ m_targetState' = MomentumTarget(m_targetState, smoothed, m_velocity, height)
             /\ m_velocity' = MomentumVelocity(m_velocity)
        ELSE /\ m_state' = smoothed
             /\ UNCHANGED << m_targetState, m_velocity >>

\* The animation timer's slot.
animate ==
  /\ ticksLeft > 0
  /\ ticksLeft' = ticksLeft - 1
  /\ lastOp' = "tick"
  /\ updatePhysics(FixedTimeStep)
  /\ UNCHANGED << m_isDragging, m_lastMousePos, viewport, inputsLeft, renderVars >>

Next ==
  \/ \E b \in Buttons, p \in PointerPositions : mousePressEvent(b, p)
  \/ \E p \in PointerPositions : mouseMoveEvent(p)
  \/ \E b \in Buttons : mouseReleaseEvent(b)
  \/ focusOutEvent
  \/ \E up \in BOOLEAN, p \in PointerPositions : wheelEvent(up, p)
  \/ \E size \in ViewportSizes : resizeGL(size)
  \/ animate

Spec == Init /\ [][Next]_vars

\* The pixel at the exact centre of the viewport (px = W/2, py = H/2).
ViewportCenter == << (width * PxUnit) \div 2, (height * PxUnit) \div 2 >>

(***************************************************************************)
(* Scroll bursts.  The sizes a long run of scroll notches reaches lie far  *)
(* beyond MaxInputs events, so a second specification follows one burst:   *)
(* up to MaxBurst wheel events in one direction with the cursor at the     *)
(* viewport centre, and up to BurstTicks timer ticks anywhere among them.  *)
(***************************************************************************)
InitBurst ==
  /\ InitRendering
  /\ m_state = State
  /\ m_targetState = State
  /\ m_isDragging = FALSE
  /\ m_lastMousePos = <<0, 0>>
  /\ m_velocity = <<0, 0>>
  /\ viewport \in ViewportSizes
  /\ lastOp = "init"
  /\ inputsLeft = MaxBurst
  /\ ticksLeft = BurstTicks

\* The burst keeps its direction: it zooms in from at most the default size,
\* out from at least the default size.
BurstScroll(angleUp) ==
  /\ IF angleUp THEN m_targetState.zoomSize <= State.zoomSize
                ELSE m_targetState.zoomSize >= State.zoomSize
  /\ wheelEvent(angleUp, ViewportCenter)

NextBurst ==
  \/ \E up \in BOOLEAN : BurstScroll(up)
  \/ animate

SpecBurst == InitBurst /\ [][NextBurst]_vars

(***************************************************************************)
(* Degenerate viewports.  The widget is the main window's central widget   *)
(* and sets no minimum size, so a resize can collapse it to height 0 while *)
(* a grabbed pointer or a scroll still reaches it.  A third specification  *)
(* adds these resizes to the handlers of Spec.                             *)
(***************************************************************************)
DegenerateViewportSizes == { <<800, 0>> }

InitDegenerate ==
  /\ InitRendering
  /\ m_state = State
  /\ m_targetState = State
  /\ m_isDragging = FALSE
  /\ m_lastMousePos = <<0, 0>>
  /\ m_velocity = <<0, 0>>
  /\ viewport \in ViewportSizes
  /\ lastOp = "init"
  /\ inputsLeft = MaxInputs
  /\ ticksLeft = MaxTicks

NextDegenerate ==
  \/ Next
  \/ \E size \in DegenerateViewportSizes : resizeGL(size)

SpecDegenerate == InitDegenerate /\ [][NextDegenerate]_vars

(***************************************************************************)
(* The precision split.  splitDouble works on the binary significands of   *)
(* its operands, so its doubles and floats are modelled as binary          *)
(* floating-point numbers scaled to integers: a value is a count of the    *)
(* smallest double step of the modelled range, a double keeps DoubleBits   *)
(* significant bits and a float FloatBits, with DoubleBits > 2 * FloatBits *)
(* as in IEEE 754 (53 > 2 * 24).  A float is also a multiple of            *)
(* 2^FloatMinExp (gradual underflow) and at most FloatMax in magnitude; a  *)
(* conversion that rounds beyond FloatMax gives an infinity.               *)
(***************************************************************************)
FloatBits == 4
DoubleBits == 11
FloatMinExp == 1
FloatMaxExp == 7

\* The doubles handed to splitDouble lie within -MaxValue .. MaxValue.
MaxValue == 4095

RECURSIVE Pow2(_)
Pow2(k) == IF k <= 0 THEN 1 ELSE 2 * Pow2(k - 1)

\* The binary exponent of n >= 1: the largest e with 2^e <= n.
RECURSIVE Exponent(_)
Exponent(n) == IF n < 2 THEN 0 ELSE 1 + Exponent(n \div 2)

\* The largest finite float.
FloatMax == (Pow2(FloatBits) - 1) * Pow2(FloatMaxExp)

\* The spacing of the numbers with `bits` significant bits and least
\* exponent minExp around a magnitude a >= 0.
Ulp(a, bits, minExp) ==
  LET e == IF a = 0 THEN minExp ELSE Exponent(a) - bits + 1
  IN  Pow2(IF e < minExp THEN minExp ELSE e)

\* a >= 0 rounded to the nearest multiple of g, ties to the even multiple.
RoundToGrid(a, g) ==
  LET q == a \div g
      r == a % g
  IN  IF 2 * r < g THEN q * g
      ELSE IF 2 * r > g THEN (q + 1) * g
      ELSE IF q % 2 = 0 THEN q * g ELSE (q + 1) * g

\* A finite x rounded to `bits` significant bits (round to nearest even).
RoundSignificand(x, bits, minExp) ==
  LET r == RoundToGrid(Abs(x), Ulp(Abs(x), bits, minExp))
  IN  IF x < 0 THEN -r ELSE r

\* The rounding of one double operation.
RoundToDouble(x) ==
  IF ~IsFinite(x) THEN x ELSE RoundSignificand(x, DoubleBits, 0)

\* static_cast<float>(x) of a double x.
ToFloat(x) ==
  IF ~IsFinite(x) THEN x
  ELSE LET r == RoundSignificand(x, FloatBits, FloatMinExp)
       IN  IF r > FloatMax THEN PosInf
           ELSE IF r < -FloatMax THEN NegInf
           ELSE r

\* static_cast<double>(f) of a float f: exact.
ToDouble(f) == f

\* a + b and a - b in double.
DAdd(a, b) == RoundToDouble(FAdd(a, b))
DSub(a, b) == RoundToDouble(FSub(a, b))

\* a != b as the floating-point comparison evaluates it (true with a NaN).
FNotEqual(a, b) == a = NaN \/ b = NaN \/ a # b

splitDouble(v) ==
  LET hi == ToFloat(v)
      hi_as_double == ToDouble(hi)
      residual == DSub(v, hi_as_double)
      lo == ToFloat(residual)
      sum_d == DAdd(ToDouble(hi), ToDouble(lo))
      sum_f == ToFloat(sum_d)
      sum_as_double == ToDouble(sum_f)
      error == DSub(residual, DSub(sum_as_double, hi_as_double))
      error_f == ToFloat(error)
  IN  IF FNotEqual(sum_f, hi)
        THEN [ hi |-> sum_f, lo |-> error_f ]
        ELSE [ hi |-> hi, lo |-> lo ]

\* The finite doubles of the modelled range.
Doubles == { n \in -MaxValue .. MaxValue : RoundToDouble(n) = n }

\* (double)hi + (double)lo, the value a split stands for.
Reconstructed(sp) == DAdd(ToDouble(sp.hi), ToDouble(sp.lo))

\* The pass-through uniforms updateUniforms sets from a stored state s:
\* u_paletteId and u_fractalType are the stored ints, u_juliaC is
\* QVector2D(juliaCx, juliaCy), whose components are floats.
PassThroughUniforms(s) ==
  [ u_paletteId   |-> s.paletteId,
    u_fractalType |-> s.fractalType,
    u_juliaC      |-> << ToFloat(s.juliaCx), ToFloat(s.juliaCy) >> ]

\* The widget's variables, which the split does not touch.
widgetVars ==
  << m_state, m_targetState, m_isDragging, m_lastMousePos, m_velocity,
     viewport, inputsLeft, ticksLeft >>

\* updateUniforms splits a stored double v.
SplitValue(v) ==
  /\ lastOp = "init"
  /\ lastOp' = "splitDouble"
  /\ value' = v
  /\ split' = splitDouble(v)
  /\ UNCHANGED << widgetVars, m_program, m_usingNativeDoubles, loadResult,
                  u_maxIterations >>

\* The value the last split stands for is split again.
SplitReconstructed ==
  /\ lastOp = "splitDouble"
  /\ lastOp' = "resplit"
  /\ value' = Reconstructed(split)
  /\ split' = splitDouble(Reconstructed(split))
  /\ UNCHANGED << widgetVars, m_program, m_usingNativeDoubles, loadResult,
                  u_maxIterations >>

NextSplit ==
  \/ \E v \in Doubles : SplitValue(v)
  \/ SplitReconstructed

SpecSplit == Init /\ [][NextSplit]_vars

(***************************************************************************)
(* The rendering path: initializeGL loads the shader program through the   *)
(* ShaderManager (desktop build), paintGL fetches the program, binds it    *)
(* and hands the uniforms to it.                                           *)
(***************************************************************************)

\* What the driver answers to the compile and link requests of one
\* loadFractalShader call.
ShaderOutcomes ==
  [ vertex : BOOLEAN, doubleFragment : BOOLEAN, doubleLink : BOOLEAN,
    fallbackVertex : BOOLEAN, fragment : BOOLEAN, link : BOOLEAN ]

\* loadFractalShader's exits, for driver answers o and the native-doubles
\* flag `native` on entry: the m_program it leaves, the value it returns and
\* the flag it leaves.  m_program is replaced by a fresh program object on
\* entry and again before the fallback; no exit resets it.
LoadExit(o, native) ==
  IF ~o.vertex
    THEN [ program |-> "unlinked", returns |-> FALSE, native |-> native ]
  ELSE IF o.doubleFragment /\ o.doubleLink
    THEN [ program |-> "linked", returns |-> TRUE, native |-> TRUE ]
  ELSE IF ~o.fallbackVertex
    THEN [ program |-> "unlinked", returns |-> FALSE, native |-> native ]
  ELSE IF ~o.fragment
    THEN [ program |-> "unlinked", returns |-> FALSE, native |-> native ]
  ELSE IF ~o.link
    THEN [ program |-> "unlinked", returns |-> FALSE, native |-> native ]
  ELSE [ program |-> "linked", returns |-> TRUE, native |-> FALSE ]

loadFractalShader(o) ==
  /\ inputsLeft > 0
  /\ inputsLeft' = inputsLeft - 1
  /\ lastOp' = "loadFractalShader"
  /\ m_program' = LoadExit(o, m_usingNativeDoubles).program
  /\ loadResult' =
       IF LoadExit(o, m_usingNativeDoubles).returns THEN "true" ELSE "false"
  /\ m_usingNativeDoubles' = LoadExit(o, m_usingNativeDoubles).native
  /\ UNCHANGED << m_state, m_targetState, m_isDragging, m_lastMousePos,
                  m_velocity, viewport, ticksLeft, u_maxIterations, value, split >>

\* ShaderManager::getProgram
getProgram == m_program

\* Resolution of the size handed to the iteration policy: counts of 1e-7.
IterUnit == 10000000

\* The absolute maximum of the scaled iteration count.
IterationCap == 10000

\* static_cast<int>(maxIterations * factor) for factor = n / 10.
ScaledIterations(maxIterations, n) == (maxIterations * n) \div 10

Min(a, b) == IF a < b THEN a ELSE b

\* effectiveIterations of updateUniforms, for a stored maxIterations and a
\* current size in 1/IterUnit.
effectiveIterations(maxIterations, zoomSize) ==
  IF zoomSize < IterUnit \div 1000000
    THEN Min(IterationCap, ScaledIterations(maxIterations, 15))
  ELSE IF zoomSize < IterUnit \div 10000
    THEN Min(IterationCap, ScaledIterations(maxIterations, 12))
  ELSE maxIterations

\* Stored iteration budgets (maxIterations is an int >= 1; the widget's own
\* default is 500) and current sizes on both sides of 1e-6 and 1e-4.
IterationBudgets == { 1, 4, 500, 7000, 9000, 10000, 20000 }
DeepZoomSizes == { 1, 9, 10, 500, 999, 1000, 3 * IterUnit }
StoredViews == [ maxIterations : IterationBudgets, zoomSize : DeepZoomSizes ]

\* paintGL with the stored view s: nothing is drawn unless getProgram()
\* returns a program and bind() succeeds on it, which needs a linked program.
paintGL(s) ==
  /\ inputsLeft > 0
  /\ inputsLeft' = inputsLeft - 1
  /\ lastOp' = "paintGL"
  /\ u_maxIterations' =
       IF getProgram = "linked"
         THEN effectiveIterations(s.maxIterations, s.zoomSize)
         ELSE u_maxIterations
  /\ UNCHANGED << m_state, m_targetState, m_isDragging, m_lastMousePos,
                  m_velocity, viewport, ticksLeft, m_program,
                  m_usingNativeDoubles, loadResult, value, split >>

NextRender ==
  \/ \E o \in ShaderOutcomes : loadFractalShader(o)
  \/ \E s \in StoredViews : paintGL(s)

SpecRender == Init /\ [][NextRender]_vars

(***************************************************************************)
(* Claims                                                                  *)
(***************************************************************************)

C3_DragScaleFromTarget ==
  [][ \A p \in PointerPositions :
        (m_isDragging /\ mouseMoveEvent(p)) =>
          /\ m_targetState'.zoomCenterX =
               m_targetState.zoomCenterX
                 - PixelToFractal(PointerDelta(p)[1], m_targetState.zoomSize, height)
          /\ m_targetState'.zoomCenterY =
               m_targetState.zoomCenterY
                 + PixelToFractal(PointerDelta(p)[2], m_targetState.zoomSize, height) ]_vars

\* C3 (amended): while dragging, a pointer move by (dx, dy) sets
\* target.centerX to current.centerX - dx * scale and target.centerY to
\* current.centerY + dy * scale with scale = current.size / H: the scale is
\* taken from the CURRENT size and the displacement starts from the current
\* centre, also when a zoom animation is in progress.
C3_DragScaleFromCurrent ==
  [][ \A p \in PointerPositions :
        (m_isDragging /\ mouseMoveEvent(p)) =>
          /\ m_targetState'.zoomCenterX =
               m_state.zoomCenterX
                 - PixelToFractal(PointerDelta(p)[1], m_state.zoomSize, height)
          /\ m_targetState'.zoomCenterY =
               m_state.zoomCenterY
                 + PixelToFractal(PointerDelta(p)[2], m_state.zoomSize, height)
          /\ m_targetState'.zoomSize = m_targetState.zoomSize ]_vars

\* C3 witness: a drag move with a nonzero delta has run while the zoom
\* animation was in progress (current.size differs from target.size).
C3_Witness ==
  /\ lastOp = "move"
  /\ m_isDragging
  /\ m_velocity # <<0, 0>>
  /\ m_state.zoomSize # m_targetState.zoomSize
  /\ m_state.zoomCenterX # State.zoomCenterX

\* The drag scenario's move: dragging on an 800x600 viewport with
\* target.size = 3.0, the pointer moves by the pixel delta (30, -10).
DragScenarioMove ==
  /\ m_isDragging
  /\ viewport = <<800, 600>>
  /\ m_targetState.zoomSize = 3 * Unit
  /\ \E p \in PointerPositions :
       /\ PointerDelta(p) = << 30 * PxUnit, -10 * PxUnit >>
       /\ mouseMoveEvent(p)

\* C4 (as claimed): the scenario's move makes target.centerX decrease by 0.15
\* and target.centerY increase by 0.05.
C4_DragScenarioAsClaimed ==
  [][ DragScenarioMove =>
        /\ m_targetState'.zoomCenterX = m_targetState.zoomCenterX - (15 * Unit) \div 100
        /\ m_targetState'.zoomCenterY = m_targetState.zoomCenterY + (5 * Unit) \div 100 ]_vars

\* C4 (amended): when also current.size = 3.0 and target.center =
\* current.center, the scenario's move makes target.centerX decrease by 0.15
\* and target.centerY DECREASE by 0.05 (centerY changes by dy * scale with
\* dy = -10).
C4_DragScenario ==
  [][ ( /\ DragScenarioMove
        /\ m_state.zoomSize = 3 * Unit
        /\ m_targetState.zoomCenterX = m_state.zoomCenterX
        /\ m_targetState.zoomCenterY = m_state.zoomCenterY ) =>
        /\ m_targetState'.zoomCenterX = m_targetState.zoomCenterX - (15 * Unit) \div 100
        /\ m_targetState'.zoomCenterY = m_targetState.zoomCenterY - (5 * Unit) \div 100 ]_vars

\* C4 witness: the scenario's move has run from the initial view: the delta
\* (30, -10) is recorded as the velocity and the centre is
\* (-0.5 - 0.15, 0 - 0.05).
C4_Witness ==
  /\ lastOp = "move"
  /\ m_isDragging
  /\ viewport = <<800, 600>>
  /\ m_velocity = << 30 * PxUnit, -10 * PxUnit >>
  /\ m_state.zoomSize = 3 * Unit
  /\ m_targetState.zoomSize = 3 * Unit
  /\ m_targetState.zoomCenterX = State.zoomCenterX - (15 * Unit) \div 100
  /\ m_targetState.zoomCenterY = State.zoomCenterY - (5 * Unit) \div 100

\* C9: a left-button press in Idle moves the controller to Dragging, records
\* the press position as lastPointerPos, zeroes the velocity and sets
\* target.centerX/centerY to current.centerX/centerY; target.size and the
\* whole current state are unchanged.
C9_PressTransition ==
  [][ \A p \in PointerPositions :
        (~m_isDragging /\ mousePressEvent("LeftButton", p)) =>
          /\ m_isDragging'
          /\ m_lastMousePos' = p
          /\ m_velocity' = <<0, 0>>
          /\ m_targetState'.zoomCenterX = m_state.zoomCenterX
          /\ m_targetState'.zoomCenterY = m_state.zoomCenterY
          /\ m_targetState'.zoomSize = m_targetState.zoomSize
          /\ m_state' = m_state ]_vars

\* C9 witness: a press has run after a scroll off the viewport centre and a
\* tick: the target centre, which the scroll had moved away, equals the
\* current centre again, while the target size still differs from the current
\* size.
C9_Witness ==
  /\ lastOp = "press"
  /\ m_isDragging
  /\ nInputs = 2
  /\ nTicks = 1
  /\ m_state.zoomCenterX # State.zoomCenterX
  /\ m_targetState.zoomCenterX = m_state.zoomCenterX
  /\ m_targetState.zoomCenterY = m_state.zoomCenterY
  /\ m_targetState.zoomSize # m_state.zoomSize

\* C10 (as claimed): in a tick with dragging false and velocity above the
\* stop threshold, the velocity displacement is added to target.center and
\* not to current.center, which changes only through the smoothing step.
C10_MomentumOnTargetOnly ==
  [][ (animate /\ MomentumActive(m_isDragging, m_velocity)) =>
        LET smoothed == SmoothState(m_state, m_targetState)
            d == MomentumDelta(smoothed, m_velocity, height)
        IN  /\ m_targetState'.zoomCenterX = m_targetState.zoomCenterX - d[1]
            /\ m_targetState'.zoomCenterY = m_targetState.zoomCenterY + d[2]
            /\ m_state' = smoothed ]_vars

\* C10 (amended): in such a tick the velocity displacement (-dx, +dy), scaled
\* by the smoothed current size, is added to BOTH target.center and
\* current.center: current.center is the smoothed centre moved by the same
\* displacement; the sizes are not touched by the momentum step.
C10_MomentumOnBoth ==
  [][ (animate /\ MomentumActive(m_isDragging, m_velocity)) =>
        LET smoothed == SmoothState(m_state, m_targetState)
            d == MomentumDelta(smoothed, m_velocity, height)
        IN  /\ m_targetState'.zoomCenterX = m_targetState.zoomCenterX - d[1]
            /\ m_targetState'.zoomCenterY = m_targetState.zoomCenterY + d[2]
            /\ m_targetState'.zoomSize = m_targetState.zoomSize
            /\ m_state'.zoomCenterX = smoothed.zoomCenterX - d[1]
            /\ m_state'.zoomCenterY = smoothed.zoomCenterY + d[2]
            /\ m_state'.zoomSize = smoothed.zoomSize ]_vars

\* C10 witness: after a drag by (30, -10) from the initial view and a
\* release, one tick has moved both centres by the momentum displacement
\* (-0.15, -0.05) and applied friction to the velocity.
C10_Witness ==
  /\ lastOp = "tick"
  /\ ~m_isDragging
  /\ nTicks = 1
  /\ m_velocity = << Round(30 * PxUnit * 92, 100), Round(-10 * PxUnit * 92, 100) >>
  /\ m_state.zoomCenterX = State.zoomCenterX - (30 * Unit) \div 100
  /\ m_state.zoomCenterY = State.zoomCenterY - (10 * Unit) \div 100
  /\ m_targetState.zoomCenterX = m_state.zoomCenterX
  /\ m_targetState.zoomCenterY = m_state.zoomCenterY

\* C5 (as claimed): with dragging false, repeated ticks drive ANY nonzero
\* velocity, also one at or below the stop threshold, to exactly (0, 0) in a
\* bounded number of ticks.  The velocity a tick leaves depends on the drag
\* flag and the velocity alone, so this needs every such tick to change the
\* velocity; and a tick with velocity (0, 0) must not change target.center.
C5_MomentumDecayConverges ==
  [][ (animate /\ ~m_isDragging) =>
        /\ (m_velocity # <<0, 0>>) => (m_velocity' # m_velocity)
        /\ (m_velocity = <<0, 0>>) =>
             /\ m_targetState'.zoomCenterX = m_targetState.zoomCenterX
             /\ m_targetState'.zoomCenterY = m_targetState.zoomCenterY ]_vars

\* The three smoothed components of a state.
Components == { "zoomCenterX", "zoomCenterY", "zoomSize" }

\* C6 (as claimed): with the target held fixed and velocity zero, a tick
\* strictly reduces |target - current| in every component where current
\* differs from target, and does not change the sign of target - current.
C6_LerpStrictlyReduces ==
  [][ (animate /\ m_velocity = <<0, 0>>) =>
        \A f \in Components :
          LET t == m_targetState[f]
              c == m_state[f]
              n == m_state'[f]
          IN  (c # t) =>
                /\ Abs(t - n) < Abs(t - c)
                /\ (t > c) = (t > n) ]_vars

\* C6 (amended): with the target held fixed and velocity zero, a tick never
\* enlarges |target - current| and never changes the sign of target - current
\* (no overshoot, no oscillation); it strictly reduces |target - current|
\* when the step 0.08 * |target - current| exceeds half a rounding unit, and
\* leaves the component where it is when the step is smaller.
C6_LerpMonotone ==
  [][ (animate /\ m_velocity = <<0, 0>>) =>
        /\ m_targetState' = m_targetState
        /\ \A f \in Components :
             LET t == m_targetState[f]
                 c == m_state[f]
                 n == m_state'[f]
             IN  /\ Abs(t - n) <= Abs(t - c)
                 /\ (c # t) => ((t > c) = (t > n) /\ n # t)
                 /\ (Abs(t - c) * 16 > 100) => Abs(t - n) < Abs(t - c)
                 /\ (Abs(t - c) * 16 < 100) => n = c ]_vars

\* C6 witness: a tick has run with zero velocity after a zoom-in scroll a
\* twentieth of a pixel off the centre: current.size has moved strictly
\* between its old value and target.size, while current.centerX, one rounding
\* unit from target.centerX, has stayed.
C6_Witness ==
  /\ lastOp = "tick"
  /\ m_velocity = <<0, 0>>
  /\ nTicks = 1
  /\ m_targetState.zoomSize < m_state.zoomSize
  /\ m_state.zoomSize < State.zoomSize
  /\ m_state.zoomCenterX = State.zoomCenterX
  /\ Abs(m_targetState.zoomCenterX - m_state.zoomCenterX) = 1

\* C7 (as claimed): there is a maximum size that target.size approaches and
\* never exceeds by more than a diminishing bound, so target.size does not
\* grow without bound under repeated zoom-out.  Whatever the maximum and the
\* bound are, target.size then stays a finite number.
C7_ZoomOutBounded == m_targetState.zoomSize <= MaxFinite

\* C8 (as claimed): in every reachable state current.size and target.size
\* are strictly greater than 0.
C8_SizesPositive ==
  /\ IsPositive(m_state.zoomSize)
  /\ IsPositive(m_targetState.zoomSize)

\* C11 (as claimed): after a left-button release or a loss of input focus
\* the controller is Idle (dragging = false), and a pointer move that follows
\* a focus loss changes neither current nor target nor velocity.
C11_DraggingResetOnFocusLoss ==
  [][ /\ (mouseReleaseEvent("LeftButton") \/ focusOutEvent) => ~m_isDragging'
      /\ (lastOp = "focusOut" /\ \E p \in PointerPositions : mouseMoveEvent(p)) =>
           UNCHANGED << m_state, m_targetState, m_velocity >> ]_vars

\* C12 (as claimed): a pointer move while Dragging, or a scroll, delivered
\* when the viewport height is 0 is dropped: current, target and velocity
\* are all left unchanged.
C12_DegenerateViewportDropsEvent ==
  [][ (height = 0) =>
        /\ \A p \in PointerPositions :
             (m_isDragging /\ mouseMoveEvent(p)) =>
               UNCHANGED << m_state, m_targetState, m_velocity >>
        /\ \A up \in BOOLEAN, p \in PointerPositions :
             wheelEvent(up, p) =>
               UNCHANGED << m_state, m_targetState, m_velocity >> ]_vars

\* C13 (as claimed): with the target fixed and zero velocity, one tick after
\* an elapsed time 2d leaves current at the value two consecutive ticks of
\* elapsed time d leave it at.
C13_FrameRateIndependent ==
  (m_velocity = <<0, 0>>) =>
    \A d \in ElapsedTimes :
      (2 * d \in ElapsedTimes) =>
        TickCurrent(m_state, m_targetState, 2 * d) =
          TickCurrent(TickCurrent(m_state, m_targetState, d), m_targetState, d)

\* C14 (as claimed): for every finite double value, splitDouble(value) =
\* (hi, lo) reconstructs value to within the rounding of lo to float
\* (|value - (hi + lo)| is at most half a float step at lo), and splitting
\* the reconstruction (double)hi + (double)lo returns the same pair.
C14_SplitRoundTrip ==
  (lastOp = "splitDouble") =>
    /\ IsFinite(split.hi) /\ IsFinite(split.lo)
    /\ 2 * Abs(value - Reconstructed(split))
         <= Ulp(Abs(split.lo), FloatBits, FloatMinExp)
    /\ splitDouble(Reconstructed(split)) = split

\* C15 (as claimed): for every finite double value, the hi component
\* splitDouble returns is the float nearest to value, round_to_float(value),
\* also when the renormalization branch is taken.
C15_SplitHiNearest ==
  (lastOp = "splitDouble") => split.hi = ToFloat(value)

\* C16: a left-button release while Dragging changes only the dragging flag
\* (to false): current, target, velocity and lastPointerPos are unchanged;
\* and the tick that directly follows a release runs its momentum phase with
\* the velocity the release left, i.e. the one the last drag move recorded.
C16_ReleaseTransition ==
  [][ /\ (m_isDragging /\ mouseReleaseEvent("LeftButton")) =>
           /\ ~m_isDragging'
           /\ UNCHANGED << m_state, m_targetState, m_velocity, m_lastMousePos >>
      /\ (lastOp = "release" /\ animate
             /\ MomentumActive(m_isDragging, m_velocity)) =>
           LET smoothed == SmoothState(m_state, m_targetState)
           IN  /\ m_state'.zoomCenterX =
                    smoothed.zoomCenterX
                      - PixelToFractal(m_velocity[1], smoothed.zoomSize, height)
               /\ m_state'.zoomCenterY =
                    smoothed.zoomCenterY
                      + PixelToFractal(m_velocity[2], smoothed.zoomSize, height)
               /\ m_velocity' = MomentumVelocity(m_velocity) ]_vars

\* C16 witness: a press, a drag move by (30, -10) and a release have run:
\* the controller is Idle, and the velocity and the last pointer position are
\* still the ones the move recorded.
C16_Witness ==
  /\ lastOp = "release"
  /\ ~m_isDragging
  /\ nInputs = 3
  /\ m_velocity = << 30 * PxUnit, -10 * PxUnit >>
  /\ m_lastMousePos = << 430 * PxUnit, 290 * PxUnit >>
  /\ m_state.zoomCenterX = m_targetState.zoomCenterX
  /\ m_state.zoomCenterX # State.zoomCenterX

\* The stored fields the core passes through.
PassThroughFields == { "maxIterations", "paletteId", "fractalType", "juliaCx", "juliaCy" }

\* C17 (as claimed): in every reachable state the stored maxIterations,
\* paletteId, fractalType and juliaC equal their initial values, and the
\* snapshot delivers paletteId, fractalType and juliaC EQUAL to the stored
\* values.
C17_PassThroughEqual ==
  /\ \A f \in PassThroughFields : m_state[f] = State[f]
  /\ PassThroughUniforms(m_state).u_paletteId = m_state.paletteId
  /\ PassThroughUniforms(m_state).u_fractalType = m_state.fractalType
  /\ PassThroughUniforms(m_state).u_juliaC = << m_state.juliaCx, m_state.juliaCy >>

\* C17 (amended): in every reachable state the stored maxIterations,
\* paletteId, fractalType and juliaC equal their initial values (no handler
\* and no tick writes them, in current or in target); the snapshot delivers
\* paletteId and fractalType equal to the stored values and juliaC as the
\* stored doubles narrowed to float, which for the default juliaC is within
\* half a float step of the stored value but not equal to it.
C17_PassThroughNarrowed ==
  /\ \A f \in PassThroughFields :
       m_state[f] = State[f] /\ m_targetState[f] = State[f]
  /\ PassThroughUniforms(m_state).u_paletteId = m_state.paletteId
  /\ PassThroughUniforms(m_state).u_fractalType = m_state.fractalType
  /\ PassThroughUniforms(m_state).u_juliaC =
       << ToFloat(State.juliaCx), ToFloat(State.juliaCy) >>
  /\ \A i \in 1..2 :
       LET stored == << m_state.juliaCx, m_state.juliaCy >>[i]
           sent   == PassThroughUniforms(m_state).u_juliaC[i]
       IN  /\ sent # stored
           /\ 2 * Abs(sent - stored) <= Ulp(Abs(stored), FloatBits, FloatMinExp)

\* C17 witness: a drag, a scroll and a tick have all run and have moved the
\* view (centre and size), with the momentum of the drag still active.
C17_Witness ==
  /\ lastOp = "tick"
  /\ nInputs = 3
  /\ m_velocity # <<0, 0>>
  /\ m_state.zoomCenterX # State.zoomCenterX
  /\ m_state.zoomSize # State.zoomSize
  /\ m_targetState.zoomSize # State.zoomSize

\* C18 (as claimed): getProgram returns nullptr whenever no shader program
\* has been successfully loaded: before any loadFractalShader call and after
\* every loadFractalShader call that returned false.
C18_ProgramNullUnlessLoaded ==
  (loadResult \in { "none", "false" }) => getProgram = "nullptr"

C20_MomentumGatedOnDragging ==
  [][ (animate /\ m_isDragging) =>
        /\ m_velocity' = m_velocity
        /\ m_targetState' = m_targetState
        /\ m_state' = SmoothState(m_state, m_targetState)
        /\ m_isDragging' ]_vars

\* C20 witness: a tick has run while Dragging with the velocity (30, -10) of
\* the last drag move, above the stop threshold, and with a zoom animation in
\* progress: the velocity is still (30, -10) and the target centre is where
\* the drag move left it.
C20_Witness ==
  /\ lastOp = "tick"
  /\ m_isDragging
  /\ nTicks = 1
  /\ m_velocity = << 30 * PxUnit, -10 * PxUnit >>
  /\ manhattanLength(m_velocity) > StopThreshold
  /\ m_targetState.zoomSize # State.zoomSize
  /\ m_state.zoomSize # m_targetState.zoomSize
  /\ m_state.zoomSize # State.zoomSize

\* C21: a scroll event mutates only the target size and the target centre.
\* The current state, the velocity, the dragging flag, the last pointer
\* position and every other target field are unchanged by wheelEvent, in
\* Idle and in Dragging alike; the current state reaches the scrolled target
\* only through ticks.
C21_ScrollMutatesTargetOnly ==
  [][ \A up \in BOOLEAN, p \in PointerPositions :
        wheelEvent(up, p) =>
          /\ UNCHANGED << m_state, m_velocity, m_isDragging, m_lastMousePos >>
          /\ m_targetState' =
               [ m_targetState EXCEPT
                   !.zoomSize    = m_targetState'.zoomSize,
                   !.zoomCenterX = m_targetState'.zoomCenterX,
                   !.zoomCenterY = m_targetState'.zoomCenterY ] ]_vars

\* C21 witness: a scroll off the viewport centre has been delivered in the
\* middle of a drag, after a move by (30, -10): the target size and centre
\* have left the current ones, while the current state is where the move put
\* it and the velocity and last pointer position are the ones it recorded.
C21_Witness ==
  /\ lastOp = "wheel"
  /\ m_isDragging
  /\ nInputs = 3
  /\ m_velocity = << 30 * PxUnit, -10 * PxUnit >>
  /\ m_lastMousePos = << 430 * PxUnit, 290 * PxUnit >>
  /\ m_state.zoomSize = State.zoomSize
  /\ m_state.zoomCenterX # State.zoomCenterX
  /\ m_targetState.zoomSize # m_state.zoomSize
  /\ m_targetState.zoomCenterX # m_state.zoomCenterX

\* C22: immediately after every pointer move processed while Dragging the
\* target centre equals the current centre on both axes, whatever offset a
\* scroll had left pending between them before the move; a pointer move
\* while Idle changes none of the widget's members.
C22_MoveSyncsTargetCenter ==
  [][ \A p \in PointerPositions :
        mouseMoveEvent(p) =>
          IF m_isDragging
            THEN /\ m_targetState'.zoomCenterX = m_state'.zoomCenterX
                 /\ m_targetState'.zoomCenterY = m_state'.zoomCenterY
            ELSE UNCHANGED << m_state, m_targetState, m_velocity,
                              m_lastMousePos, m_isDragging, viewport >> ]_vars

\* C22 witness: a press, a scroll and a drag move by (30, -10) have run.  The
\* target size still differs from the current size (the scroll is pending),
\* and the target centre is the current centre the move produced.
C22_Witness ==
  /\ lastOp = "move"
  /\ m_isDragging
  /\ nInputs = 3
  /\ m_velocity = << 30 * PxUnit, -10 * PxUnit >>
  /\ m_targetState.zoomSize # m_state.zoomSize
  /\ m_state.zoomCenterX # State.zoomCenterX
  /\ m_state.zoomCenterY # State.zoomCenterY
  /\ m_targetState.zoomCenterX = m_state.zoomCenterX
  /\ m_targetState.zoomCenterY = m_state.zoomCenterY

====
